---- MODULE Spec2Model ----
(***************************************************************************)
(* A model of edenred-cli: the command run (cmd/edenred/main.go) and the   *)
(* API client (package edenred: FetchBalances, signIn, getUserBenefits,    *)
(* balanceFloat64, readRespBody).                                          *)
(*                                                                         *)
(* Strings the code inspects byte by byte (tokens, response bodies) are    *)
(* sequences of one-character strings.  A JSON number literal is a record  *)
(* of its sign, integer digits, fraction digits and exponent.  A float64   *)
(* is modelled by the decimal value it is the nearest float64 of, in a     *)
(* canonical sign/digits/exponent form: binary rounding is not modelled.   *)
(***************************************************************************)
EXTENDS Integers, Sequences, FiniteSets, TLC

VARIABLES
    entry,        \* "run": the command; "FetchBalances": a direct call of the client
    username,     \* --username / FetchBalances argument
    password,     \* --password / FetchBalances argument
    format,       \* --format
    pc,           \* position of the single call chain
    deadline,     \* the context of run: "pending" or "elapsed"
    requests,     \* every httpClient.Do call so far, in order
    signInResp,   \* outcome of httpClient.Do in signIn
    session,      \* *signInResponse returned by signIn
    benefitsResp, \* outcome of httpClient.Do in getUserBenefits
    fb,           \* what FetchBalances returned: (*Balances, error)
    stdout,       \* the writes of run to standard output; ok: the write succeeded
    runErr,       \* the error run returned
    nb,           \* balanceFloat64 alone: its receiver
    nres          \* balanceFloat64 alone: what it returned

vars == <<entry, username, password, format, pc, deadline, requests, signInResp,
          session, benefitsResp, fb, stdout, runErr, nb, nres>>

-----------------------------------------------------------------------------
(* Sequences of digits and decimal values *)

RECURSIVE StripLeadingZeros(_)
StripLeadingZeros(ds) ==
    IF ds # <<>> /\ Head(ds) = 0 THEN StripLeadingZeros(Tail(ds)) ELSE ds

RECURSIVE DigitsLess(_, _)
\* lexicographic order of two digit sequences of the same length
DigitsLess(a, b) ==
    IF a = <<>> THEN FALSE
    ELSE IF Head(a) # Head(b) THEN Head(a) < Head(b)
    ELSE DigitsLess(Tail(a), Tail(b))

\* magnitude a > magnitude b, both without leading zeros
MagnitudeGreater(a, b) ==
    \/ Len(a) > Len(b)
    \/ Len(a) = Len(b) /\ DigitsLess(b, a)

RECURSIVE Canon(_, _, _)
\* the value (-1)^neg * ds * 10^e, in canonical form; -0 = 0
Canon(neg, ds, e) ==
    LET s == StripLeadingZeros(ds) IN
    IF s = <<>> THEN [neg |-> FALSE, digits |-> <<>>, exp |-> 0]
    ELSE IF s[Len(s)] = 0 THEN Canon(neg, SubSeq(s, 1, Len(s) - 1), e + 1)
    ELSE [neg |-> neg, digits |-> s, exp |-> e]

Zero == Canon(FALSE, <<>>, 0)

-----------------------------------------------------------------------------
(* json.Number *)

\* json.Number(""): the balance key is missing or null
EmptyNumber == [neg |-> FALSE, int |-> <<>>, frac |-> <<>>, hasExp |-> FALSE, exp |-> 0]

\* math.MaxInt64 = 9223372036854775807
MaxInt64Digits == <<9,2,2,3,3,7,2,0,3,6,8,5,4,7,7,5,8,0,7>>
\* -math.MinInt64 = 9223372036854775808
MinInt64Digits == <<9,2,2,3,3,7,2,0,3,6,8,5,4,7,7,5,8,0,8>>
\* math.MaxFloat64 = 1.7976931348623157e308
MaxFloat64Digits == <<1,7,9,7,6,9,3,1,3,4,8,6,2,3,1,5,7>>
MaxFloat64Exp10 == 308

\* json.Number.Int64: strconv.ParseInt(string(n), 10, 64)
Int64Mut(n) ==
    IF n.int = <<>> \/ n.frac # <<>> \/ n.hasExp
    THEN [ok |-> FALSE, neg |-> FALSE, digits |-> <<>>]
    ELSE [ok |-> TRUE, neg |-> n.neg, digits |-> n.int]

Int64(n) ==
    IF n.int = <<>> \/ n.frac # <<>> \/ n.hasExp
    THEN [ok |-> FALSE, neg |-> FALSE, digits |-> <<>>]      \* ErrSyntax
    ELSE LET m == StripLeadingZeros(n.int) IN
         IF MagnitudeGreater(m, IF n.neg THEN MinInt64Digits ELSE MaxInt64Digits)
         THEN [ok |-> FALSE, neg |-> FALSE, digits |-> <<>>] \* ErrRange
         ELSE [ok |-> TRUE, neg |-> n.neg, digits |-> n.int]

RECURSIVE PadTo(_, _)
PadTo(ds, k) == IF Len(ds) >= k THEN ds ELSE PadTo(Append(ds, 0), k)

\* json.Number.Float64: strconv.ParseFloat(string(n), 64)
Float64(n) ==
    IF n.int = <<>> THEN [ok |-> FALSE, val |-> Zero]        \* ErrSyntax
    ELSE LET ds  == StripLeadingZeros(n.int \o n.frac)
             e   == (IF n.hasExp THEN n.exp ELSE 0) - Len(n.frac)
             adj == Len(ds) + e - 1
             lead == SubSeq(PadTo(ds, Len(MaxFloat64Digits)), 1, Len(MaxFloat64Digits))
         IN  IF ds # <<>> /\ (\/ adj > MaxFloat64Exp10
                              \/ adj = MaxFloat64Exp10 /\ DigitsLess(MaxFloat64Digits, lead))
             THEN [ok |-> FALSE, val |-> Zero]               \* ErrRange
             ELSE [ok |-> TRUE, val |-> Canon(n.neg, n.int \o n.frac, e)]

\* userBenefit.balanceFloat64
balanceFloat64Mut(b) ==
    IF Int64(b.Balance).ok
    THEN [val |-> Canon(Int64(b.Balance).neg, Int64(b.Balance).digits, -2),
          err |-> FALSE]
    ELSE IF Float64(b.Balance).ok
         THEN [val |-> Float64(b.Balance).val, err |-> FALSE]
         ELSE [val |-> Zero, err |-> TRUE]

balanceFloat64(b) ==
    IF b.Balance = EmptyNumber THEN [val |-> Zero, err |-> FALSE]
    ELSE IF Int64(b.Balance).ok
         THEN [val |-> Canon(Int64(b.Balance).neg, Int64(b.Balance).digits, -2),
               err |-> FALSE]
         ELSE IF Float64(b.Balance).ok
              THEN [val |-> Float64(b.Balance).val, err |-> FALSE]
              ELSE [val |-> Zero, err |-> TRUE]

-----------------------------------------------------------------------------
(* Bytes *)

\* net/http validCookieValueByte, on the bytes the model draws tokens from
validCookieValueByte(c) == c \notin {";", "\"", "\\"}

\* net/http sanitizeCookieValue, as http.Request.AddCookie applies it
sanitizeCookieValue(v) == SelectSeq(v, validCookieValueByte)

isSpace(c) == c \in {" ", "\n", "\t", "\r"}

RECURSIVE TrimLeft(_)
TrimLeft(s) == IF s # <<>> /\ isSpace(Head(s)) THEN TrimLeft(Tail(s)) ELSE s

RECURSIVE TrimRight(_)
TrimRight(s) ==
    IF s # <<>> /\ isSpace(s[Len(s)]) THEN TrimRight(SubSeq(s, 1, Len(s) - 1)) ELSE s

\* strings.TrimSpace
TrimSpace(s) == TrimRight(TrimLeft(s))

\* the limit readRespBody gives io.LimitReader
ReadLimit == 512

\* strings.ToLower, on the values the model draws --format from
ToLower(s) == IF s = "JSON" THEN "json" ELSE s

-----------------------------------------------------------------------------
(* Errors: fmt.Errorf / errors.New values.  prefix is what FetchBalances   *)
(* wraps the cause with ("" when it wraps nothing), wallet the %s of the   *)
(* parse prefix, msg the cause, status and excerpt the %d and %s of        *)
(* "unexpected status %d: %s".                                             *)

Err(prefix, wallet, msg, status, excerpt) ==
    [prefix |-> prefix, wallet |-> wallet, msg |-> msg, status |-> status,
     excerpt |-> excerpt]

NoErr == Err("", "", "", 0, <<>>)

Cause(msg) == Err("", "", msg, 0, <<>>)

\* fmt.Errorf(prefix + ": %w", err)
Wrap(prefix, wallet, err) == [err EXCEPT !.prefix = prefix, !.wallet = wallet]

-----------------------------------------------------------------------------
(* HTTP: what httpClient.Do returns *)

StatusOK == 200

NoBody == [json |-> FALSE, text |-> <<>>, sessionToken |-> <<>>,
           refreshToken |-> <<>>, error |-> "", benefits |-> <<>>]

\* state: "none" before the call, "error" when Do returned an error,
\* "response" when it returned a response; readOk: reading the body succeeds
NoOutcome == [state |-> "none", status |-> 0, readOk |-> FALSE, body |-> NoBody]

TransportError == [NoOutcome EXCEPT !.state = "error"]

Response(status, readOk, body) ==
    [state |-> "response", status |-> status, readOk |-> readOk, body |-> body]

\* readRespBody
readRespBody(o) ==
    IF ~o.readOk THEN <<>>
    ELSE TrimSpace(SubSeq(o.body.text, 1,
                          IF Len(o.body.text) < ReadLimit THEN Len(o.body.text)
                          ELSE ReadLimit))

\* the request signIn builds
signInRequest(u, p) ==
    [method |-> "POST", path |-> "/signin",
     payload |-> <<[username |-> u, password |-> p, reCaptchaToken |-> ""]>>,
     cookies |-> <<>>]

\* the request getUserBenefits builds
benefitsRequestMut(sessionToken, refreshToken) ==
    [method |-> "GET", path |-> "/users/me/user-benefits", payload |-> <<>>,
     cookies |-> <<[name |-> "X-Access-Token", value |-> sanitizeCookieValue(refreshToken)],
                   [name |-> "X-Access-Refresh-Token",
                    value |-> sanitizeCookieValue(sessionToken)]>>]

benefitsRequest(sessionToken, refreshToken) ==
    [method |-> "GET", path |-> "/users/me/user-benefits", payload |-> <<>>,
     cookies |->
        (IF sessionToken # <<>>
         THEN <<[name |-> "X-Access-Token", value |-> sanitizeCookieValue(sessionToken)]>>
         ELSE <<>>)
        \o
        (IF refreshToken # <<>>
         THEN <<[name |-> "X-Access-Refresh-Token",
                 value |-> sanitizeCookieValue(refreshToken)]>>
         ELSE <<>>)]

NoSession == [SessionToken |-> <<>>, RefreshToken |-> <<>>, Error |-> ""]

\* signIn, from the return of httpClient.Do on
signInMut(o) ==
    IF o.state = "error"
    THEN [ok |-> FALSE, result |-> NoSession, err |-> Cause("execute request")]
    ELSE IF ~o.readOk \/ ~o.body.json
    THEN [ok |-> FALSE, result |-> NoSession, err |-> Cause("decode response")]
    ELSE [ok |-> TRUE,
          result |-> [SessionToken |-> o.body.sessionToken,
                      RefreshToken |-> o.body.refreshToken,
                      Error |-> o.body.error],
          err |-> NoErr]

signIn(o) ==
    IF o.state = "error"
    THEN [ok |-> FALSE, result |-> NoSession, err |-> Cause("execute request")]
    ELSE IF o.status # StatusOK
    THEN [ok |-> FALSE, result |-> NoSession,
          err |-> Err("", "", "unexpected status %d: %s", o.status, readRespBody(o))]
    ELSE IF ~o.readOk \/ ~o.body.json
    THEN [ok |-> FALSE, result |-> NoSession, err |-> Cause("decode response")]
    ELSE IF o.body.sessionToken = <<>>
    THEN IF o.body.error # ""
         THEN [ok |-> FALSE, result |-> NoSession, err |-> Cause(o.body.error)]
         ELSE [ok |-> FALSE, result |-> NoSession,
               err |-> Cause("empty session token in response")]
    ELSE [ok |-> TRUE,
          result |-> [SessionToken |-> o.body.sessionToken,
                      RefreshToken |-> o.body.refreshToken,
                      Error |-> o.body.error],
          err |-> NoErr]

\* json.Decoder.Decode into userBenefitsResponse, with UseNumber: a balance that
\* is no JSON number (nor a string holding one) fails the whole decode
decodeBenefits(o) ==
    IF ~o.readOk \/ ~o.body.json
       \/ \E i \in 1..Len(o.body.benefits) : o.body.benefits[i].balance.kind = "other"
    THEN [ok |-> FALSE, benefits |-> <<>>]
    ELSE [ok |-> TRUE,
          benefits |-> [i \in 1..Len(o.body.benefits) |->
                          [WalletType |-> o.body.benefits[i].walletType,
                           Balance |-> IF o.body.benefits[i].balance.kind = "number"
                                       THEN o.body.benefits[i].balance.num
                                       ELSE EmptyNumber]]]

\* getUserBenefits, from the return of httpClient.Do on
getUserBenefits(o) ==
    IF o.state = "error"
    THEN [ok |-> FALSE, benefits |-> <<>>, err |-> Cause("execute request")]
    ELSE IF o.status # StatusOK
    THEN [ok |-> FALSE, benefits |-> <<>>,
          err |-> Err("", "", "unexpected status %d: %s", o.status, readRespBody(o))]
    ELSE IF ~decodeBenefits(o).ok
    THEN [ok |-> FALSE, benefits |-> <<>>, err |-> Cause("decode response")]
    ELSE [ok |-> TRUE, benefits |-> decodeBenefits(o).benefits, err |-> NoErr]

\* what FetchBalances returns: balances is <<>> for a nil *Balances
Returned(state, balances, err) == [state |-> state, balances |-> balances, err |-> err]

NotReturned == Returned("none", <<>>, NoErr)

Failed(err) == Returned("err", <<>>, err)

RECURSIVE foldBenefitsMut(_, _)
foldBenefitsMut(benefits, balances) ==
    IF benefits = <<>> THEN Returned("ok", <<balances>>, NoErr)
    ELSE LET benefit == Head(benefits)
             r == balanceFloat64(benefit)
         IN  IF r.err
             THEN Failed(Wrap("parse %s balance", benefit.WalletType,
                              Cause("strconv.ParseFloat: value out of range")))
             ELSE foldBenefitsMut(Tail(benefits),
                     IF benefit.WalletType = "main"
                     THEN [balances EXCEPT !.Virike = r.val]
                     ELSE IF benefit.WalletType = "wellness"
                     THEN [balances EXCEPT !.Lunch = r.val]
                     ELSE balances)

RECURSIVE foldBenefits(_, _)
\* the loop of FetchBalances over the benefits, and its return
foldBenefits(benefits, balances) ==
    IF benefits = <<>> THEN Returned("ok", <<balances>>, NoErr)
    ELSE LET benefit == Head(benefits)
             r == balanceFloat64(benefit)
         IN  IF r.err
             THEN Failed(Wrap("parse %s balance", benefit.WalletType,
                              Cause("strconv.ParseFloat: value out of range")))
             ELSE foldBenefits(Tail(benefits),
                     IF benefit.WalletType = "main"
                     THEN [balances EXCEPT !.Lunch = r.val]
                     ELSE IF benefit.WalletType = "wellness"
                     THEN [balances EXCEPT !.Virike = r.val]
                     ELSE balances)

\* var balances Balances
ZeroBalances == [Lunch |-> Zero, Virike |-> Zero]

\* FetchBalances, from the return of httpClient.Do in getUserBenefits on
fetchBalancesTail(o) ==
    LET r == getUserBenefits(o) IN
    IF ~r.ok THEN Failed(Wrap("fetching balances failed", "", r.err))
    ELSE foldBenefits(r.benefits, ZeroBalances)

-----------------------------------------------------------------------------
(* The inputs the model draws from *)

\* the longest benefits list a response carries
MaxWallets == 2

Usernames == {"", "user"}
Passwords == {"", "secret"}
Formats == {"text", "json", "JSON", "xml"}
Tokens == {<<>>, <<"t">>, <<"r", ";">>}
ServerErrors == {"", "invalid credentials"}
Statuses == {200, 201, 401}
TextBodies == {<<>>, <<" ", "n", "o", "\n">>}

Num(neg, int, frac, hasExp, exp) ==
    [neg |-> neg, int |-> int, frac |-> frac, hasExp |-> hasExp, exp |-> exp]

\* 6850, 12.34, 1e999
RunNumbers == {Num(FALSE, <<6,8,5,0>>, <<>>, FALSE, 0),
               Num(FALSE, <<1,2>>, <<3,4>>, FALSE, 0),
               Num(FALSE, <<1>>, <<>>, TRUE, 999)}

\* the balance of a wallet object: the key absent (or null), a number, or
\* another JSON value
RunBalances == {[kind |-> "absent", num |-> EmptyNumber],
                [kind |-> "other", num |-> EmptyNumber]}
               \cup {[kind |-> "number", num |-> n] : n \in RunNumbers}

WalletTypes == {"main", "wellness", "other"}

WalletObjects == [walletType : WalletTypes, balance : RunBalances]

RECURSIVE SeqsUpTo(_, _)
SeqsUpTo(S, n) ==
    IF n = 0 THEN {<<>>}
    ELSE SeqsUpTo(S, n - 1)
         \cup {Append(q, x) : q \in {r \in SeqsUpTo(S, n - 1) : Len(r) = n - 1}, x \in S}

TextBody(t) == [NoBody EXCEPT !.text = t]

SignInBodies ==
    {TextBody(t) : t \in TextBodies}
    \cup {[NoBody EXCEPT !.json = TRUE, !.sessionToken = st, !.refreshToken = rt,
                         !.error = e] : st \in Tokens, rt \in Tokens, e \in ServerErrors}

BenefitsBodies ==
    {TextBody(t) : t \in TextBodies}
    \cup {[NoBody EXCEPT !.json = TRUE, !.benefits = ws] :
             ws \in SeqsUpTo(WalletObjects, MaxWallets)}

\* What httpClient.Do may return.  A body that is not read in full (readOk
\* FALSE) is modelled without content; a response whose status is not 200
\* carries bytes the code never decodes.
Outcomes(bodies) ==
    {TransportError}
    \cup {Response(st, FALSE, NoBody) : st \in Statuses}
    \cup {Response(StatusOK, TRUE, b) : b \in bodies}
    \cup {Response(st, TRUE, TextBody(t)) : st \in Statuses \ {StatusOK}, t \in TextBodies}

\* Once the deadline of ctx has elapsed, Do fails or the body read fails.
OutcomesNow(bodies) ==
    IF deadline = "elapsed"
    THEN {o \in Outcomes(bodies) : o.state = "error" \/ ~o.readOk}
    ELSE Outcomes(bodies)

NoWallet == [WalletType |-> "", Balance |-> EmptyNumber]

NoAmount == [called |-> FALSE, val |-> Zero, err |-> FALSE]

-----------------------------------------------------------------------------
(* The command and the client *)

Init ==
    /\ entry \in {"run", "FetchBalances"}
    /\ username \in Usernames
    /\ password \in Passwords
    /\ format \in (IF entry = "run" THEN Formats ELSE {"text"})
    /\ pc = entry
    /\ deadline = "pending"
    /\ requests = <<>>
    /\ signInResp = NoOutcome
    /\ session = NoSession
    /\ benefitsResp = NoOutcome
    /\ fb = NotReturned
    /\ stdout = <<>>
    /\ runErr = NoErr
    /\ nb = NoWallet
    /\ nres = NoAmount

\* run, to the call of FetchBalances
Run ==
    /\ pc = "run"
    /\ IF username = "" \/ password = ""
       THEN /\ runErr' = Cause("username and password are required")
            /\ pc' = "exit"
       ELSE /\ runErr' = runErr
            /\ pc' = "FetchBalances"
    /\ UNCHANGED <<entry, username, password, format, deadline, requests, signInResp,
                   session, benefitsResp, fb, stdout, nb, nres>>

\* FetchBalances, to the call of httpClient.Do in signIn
FetchBalances ==
    /\ pc = "FetchBalances"
    /\ IF username = "" \/ password = ""
       THEN /\ fb' = Failed(Cause("username and password are required"))
            /\ pc' = "FetchBalances_return"
            /\ requests' = requests
       ELSE /\ fb' = fb
            /\ requests' = Append(requests, signInRequest(username, password))
            /\ pc' = "signIn_Do"
    /\ UNCHANGED <<entry, username, password, format, deadline, signInResp, session,
                   benefitsResp, stdout, runErr, nb, nres>>

\* where FetchBalances goes after signIn returned r
afterSignInMut(r) == "getUserBenefits_Do"

afterSignIn(r) == IF r.ok THEN "getUserBenefits_Do" ELSE "FetchBalances_return"

\* signIn from the return of Do, and FetchBalances to the call of Do in
\* getUserBenefits
SignInReturn ==
    /\ pc = "signIn_Do"
    /\ \E o \in OutcomesNow(SignInBodies) :
          LET r == signIn(o) IN
          /\ signInResp' = o
          /\ session' = r.result
          /\ pc' = afterSignIn(r)
          /\ fb' = IF r.ok THEN fb ELSE Failed(Wrap("signin failed", "", r.err))
          /\ requests' = IF afterSignIn(r) = "getUserBenefits_Do"
                         THEN Append(requests, benefitsRequest(r.result.SessionToken,
                                                               r.result.RefreshToken))
                         ELSE requests
    /\ UNCHANGED <<entry, username, password, format, deadline, benefitsResp, stdout,
                   runErr, nb, nres>>

\* getUserBenefits from the return of Do, and FetchBalances to its return
GetUserBenefitsReturn ==
    /\ pc = "getUserBenefits_Do"
    /\ \E o \in OutcomesNow(BenefitsBodies) :
          /\ benefitsResp' = o
          /\ fb' = fetchBalancesTail(o)
    /\ pc' = "FetchBalances_return"
    /\ UNCHANGED <<entry, username, password, format, deadline, requests, signInResp,
                   session, stdout, runErr, nb, nres>>

Printed(f, v, ok) == [fmt |-> f, args |-> v, ok |-> ok]

\* run, from the return of FetchBalances on; w1 and w2 tell whether the first
\* and the second write to os.Stdout succeed
RunOutput ==
    /\ pc = "FetchBalances_return"
    /\ entry = "run"
    /\ \E w1, w2 \in BOOLEAN :
          IF fb.state = "err"
          THEN stdout' = stdout /\ runErr' = fb.err
          ELSE LET balances == fb.balances[1] IN
               IF ToLower(format) = "text"
               THEN /\ stdout' = <<Printed("Lunch: %.2f\n", <<balances.Lunch>>, w1),
                                   Printed("Virike: %.2f\n", <<balances.Virike>>, w2)>>
                    /\ runErr' = NoErr
               ELSE IF ToLower(format) = "json"
               THEN /\ stdout' = <<Printed("{\"lunch\":%v,\"virike\":%v}\n",
                                            <<balances.Lunch, balances.Virike>>, w1)>>
                    /\ runErr' = IF w1 THEN NoErr
                                 ELSE Wrap("encode json", "", Cause("write os.Stdout"))
               ELSE /\ stdout' = stdout
                    /\ runErr' = Cause("unsupported format %q")
    /\ pc' = "exit"
    /\ UNCHANGED <<entry, username, password, format, deadline, requests, signInResp,
                   session, benefitsResp, fb, nb, nres>>

\* the deadline of ctx elapses
DeadlineElapses ==
    /\ deadline = "pending"
    /\ pc \in {"run", "FetchBalances", "signIn_Do", "getUserBenefits_Do"}
    /\ deadline' = "elapsed"
    /\ UNCHANGED <<entry, username, password, format, pc, requests, signInResp, session,
                   benefitsResp, fb, stdout, runErr, nb, nres>>

Next ==
    \/ Run
    \/ FetchBalances
    \/ SignInReturn
    \/ GetUserBenefitsReturn
    \/ RunOutput
    \/ DeadlineElapses

Spec == Init /\ [][Next]_vars

-----------------------------------------------------------------------------
(* balanceFloat64 alone *)

NormIntParts == {<<0>>, <<5>>, <<1,0,0>>, <<6,8,5,0>>, MaxInt64Digits, MinInt64Digits}
NormFracParts == {<<>>, <<0>>, <<3,4>>}
NormExps == {<<FALSE, 0>>, <<TRUE, 2>>, <<TRUE, -2>>, <<TRUE, 999>>}

NormNumbers ==
    {EmptyNumber}
    \cup {Num(neg, i, f, e[1], e[2]) :
             neg \in BOOLEAN, i \in NormIntParts, f \in NormFracParts, e \in NormExps}

InitNormalize ==
    /\ entry = "balanceFloat64"
    /\ username = ""
    /\ password = ""
    /\ format = "text"
    /\ pc = "balanceFloat64"
    /\ deadline = "pending"
    /\ requests = <<>>
    /\ signInResp = NoOutcome
    /\ session = NoSession
    /\ benefitsResp = NoOutcome
    /\ fb = NotReturned
    /\ stdout = <<>>
    /\ runErr = NoErr
    /\ nb \in [WalletType : WalletTypes, Balance : NormNumbers]
    /\ nres = NoAmount

BalanceFloat64 ==
    /\ pc = "balanceFloat64"
    /\ nres' = [called |-> TRUE, val |-> balanceFloat64(nb).val,
                err |-> balanceFloat64(nb).err]
    /\ pc' = "balanceFloat64_return"
    /\ UNCHANGED <<entry, username, password, format, deadline, requests, signInResp,
                   session, benefitsResp, fb, stdout, runErr, nb>>

NextNormalize == BalanceFloat64

SpecNormalize == InitNormalize /\ [][NextNormalize]_vars

-----------------------------------------------------------------------------
(* Properties *)

BenefitsPath == "/users/me/user-benefits"

Supported(f) == ToLower(f) \in {"text", "json"}

\* C1: a run with non-empty username and password and a --format that is
\* neither text nor json makes no request at any point and ends in the
\* unsupported-format usage error.
C1_UnsupportedFormatNoNetwork ==
    (entry = "run" /\ username # "" /\ password # "" /\ ~Supported(format))
        => /\ requests = <<>>
           /\ (pc = "exit" => runErr = Cause("unsupported format %q"))

SignInAccepted ==
    /\ signInResp.state = "response"
    /\ signInResp.status = StatusOK
    /\ signInResp.readOk
    /\ signInResp.body.json
    /\ signInResp.body.sessionToken # <<>>

Phase ==
    IF fb.state = "err" THEN 3
    ELSE IF fb.state = "ok" THEN 2
    ELSE IF session # NoSession THEN 1
    ELSE 0

C2_Order ==
    /\ Len(requests) <= 2
    /\ (Len(requests) >= 1 => requests[1].path = "/signin")
    /\ (Len(requests) = 2 => requests[2].path = BenefitsPath /\ SignInAccepted)
    /\ (Phase \in {1, 2} => SignInAccepted)
    /\ (Phase = 2 => Len(requests) = 2)

C2_Step ==
    /\ (fb.state = "err" => requests' = requests)
    /\ \/ Phase' = Phase
       \/ Phase = 0 /\ Phase' \in {1, 3}
       \/ Phase = 1 /\ Phase' \in {2, 3}
    /\ (Phase' = 3 /\ Phase # 3 => requests' = requests)

\* C2: FetchBalances sends at most one sign-in request and then at most one
\* benefits request, the benefits request only after the sign-in succeeded;
\* it moves Unauthenticated -> Authenticated -> BalancesFetched, never back,
\* and after any failure it sends nothing more.
C2_Sequential == [](C2_Order) /\ [][C2_Step]_vars

\* C2 witness: the deadline elapsed during the benefits call, the call
\* failed, and two requests were sent in all.
C2_Witness ==
    /\ Len(requests) = 2
    /\ deadline = "elapsed"
    /\ benefitsResp.state = "error"
    /\ fb.state = "err"

BothWritten ==
    \/ /\ Len(stdout) = 2
       /\ stdout[1] = Printed("Lunch: %.2f\n", <<fb.balances[1].Lunch>>, TRUE)
       /\ stdout[2] = Printed("Virike: %.2f\n", <<fb.balances[1].Virike>>, TRUE)
    \/ /\ Len(stdout) = 1
       /\ stdout[1] = Printed("{\"lunch\":%v,\"virike\":%v}\n",
                              <<fb.balances[1].Lunch, fb.balances[1].Virike>>, TRUE)

StdoutWorks == \A i \in 1..Len(stdout) : stdout[i].ok

\* C3: no partial result: a failed FetchBalances returns no Balances, and a
\* finished run (its writes to standard output succeeding) either succeeded
\* with both balances produced and written, or failed with no Balances
\* produced and nothing written.
C3_NoPartialResults ==
    /\ (fb.state = "err" => fb.balances = <<>>)
    /\ (entry = "run" /\ pc = "exit" /\ StdoutWorks =>
           \/ runErr = NoErr /\ fb.state = "ok" /\ BothWritten
           \/ runErr # NoErr /\ fb.state # "ok" /\ stdout = <<>>)

\* C4: signIn accepts a response only with status 200 and a non-empty session
\* token, and every response with another status, an empty session token or
\* an error field in its body is an authentication failure with no session.
C4_SignInAcceptance ==
    signInResp.state # "none" =>
        /\ (session # NoSession => SignInAccepted)
        /\ (\/ signInResp.state = "error"
            \/ signInResp.status # StatusOK
            \/ signInResp.body.sessionToken = <<>>
            \/ signInResp.body.error # ""
              => /\ session = NoSession
                 /\ fb.state = "err"
                 /\ fb.err.prefix = "signin failed")

PlainInteger(n) == n.int # <<>> /\ n.frac = <<>> /\ ~n.hasExp

InInt64Range(n) ==
    ~MagnitudeGreater(StripLeadingZeros(n.int),
                      IF n.neg THEN MinInt64Digits ELSE MaxInt64Digits)

Exponent(n) == IF n.hasExp THEN n.exp ELSE 0

\* the decimal exponent of the leading digit of the value of n
Magnitude(n) == Len(StripLeadingZeros(n.int \o n.frac)) - Len(n.frac) + Exponent(n) - 1

\* C6 as stated: every balance with a fractional part normalizes to its own
\* value, and an empty balance to 0 without error.
C6_EveryFractionIsMajorUnits ==
    nres.called =>
        /\ (nb.Balance = EmptyNumber => ~nres.err /\ nres.val = Zero)
        /\ (nb.Balance.frac # <<>> =>
               /\ ~nres.err
               /\ nres.val = Canon(nb.Balance.neg, nb.Balance.int \o nb.Balance.frac,
                                   Exponent(nb.Balance) - Len(nb.Balance.frac)))

\* C6: a balance with a fractional part whose value is below 1e308 in
\* magnitude normalizes to its own value, not divided by 100, and an empty
\* balance to 0 without error.
C6_FractionIsMajorUnits ==
    nres.called =>
        /\ (nb.Balance = EmptyNumber => ~nres.err /\ nres.val = Zero)
        /\ (nb.Balance.frac # <<>> /\ Magnitude(nb.Balance) < MaxFloat64Exp10 =>
               /\ ~nres.err
               /\ nres.val = Canon(nb.Balance.neg, nb.Balance.int \o nb.Balance.frac,
                                   Exponent(nb.Balance) - Len(nb.Balance.frac)))

\* C6 witness: 5.34 normalized to 5.34
C6_Witness ==
    /\ nres.called
    /\ nb.Balance = Num(FALSE, <<5>>, <<3,4>>, FALSE, 0)
    /\ nres = [called |-> TRUE, val |-> [neg |-> FALSE, digits |-> <<5,3,4>>, exp |-> -2],
               err |-> FALSE]

Recognized(w) == w.walletType \in {"main", "wellness"}

RemoveUnrecognized(o) == [o EXCEPT !.body.benefits = SelectSeq(@, Recognized)]

\* C7: the outcome of FetchBalances for a benefits response is its outcome
\* for the response without the wallets of unrecognized type.
C7_UnrecognizedIgnored ==
    benefitsResp.state # "none" => fb = fetchBalancesTail(RemoveUnrecognized(benefitsResp))

Cookie(n, v) == [name |-> n, value |-> v]

\* C8 as stated: every benefits request carries both cookies, valued with the
\* session and the refresh token of the sign-in response.
C8_TwoCookies ==
    \A i \in 1..Len(requests) :
        requests[i].path = BenefitsPath =>
            requests[i].cookies =
                <<Cookie("X-Access-Token", signInResp.body.sessionToken),
                  Cookie("X-Access-Refresh-Token", signInResp.body.refreshToken)>>

\* the bytes of a token that a cookie value may hold
CookieBytes(v) == SelectSeq(v, LAMBDA c : c \notin {";", "\"", "\\"})

\* C8: every benefits request carries X-Access-Token with the session token
\* of the sign-in response, followed by X-Access-Refresh-Token with its
\* refresh token only when that is non-empty; the values are the tokens less
\* the bytes a cookie value cannot hold.
C8_Cookies ==
    \A i \in 1..Len(requests) :
        requests[i].path = BenefitsPath =>
            requests[i].cookies =
                <<Cookie("X-Access-Token", CookieBytes(signInResp.body.sessionToken))>>
                \o (IF signInResp.body.refreshToken = <<>> THEN <<>>
                    ELSE <<Cookie("X-Access-Refresh-Token",
                                  CookieBytes(signInResp.body.refreshToken))>>)

\* C8 witness: a benefits request after a sign-in that returned no refresh token
C8_Witness ==
    /\ Len(requests) = 2
    /\ requests[2].path = BenefitsPath
    /\ signInResp.body.sessionToken = <<"t">>
    /\ signInResp.body.refreshToken = <<>>
    /\ requests[2].cookies = <<Cookie("X-Access-Token", <<"t">>)>>

Stages == {"signin failed", "fetching balances failed", "parse %s balance"}

\* the first wallet of the decoded benefits whose balance does not parse
RECURSIVE FirstUnparseable(_)
FirstUnparseable(ws) ==
    IF ws = <<>> THEN ""
    ELSE IF Head(ws).balance.kind = "number" /\ ~Int64(Head(ws).balance.num).ok
            /\ ~Float64(Head(ws).balance.num).ok
         THEN Head(ws).walletType
         ELSE FirstUnparseable(Tail(ws))

StagedFailure ==
    /\ requests # <<>>
    /\ fb.err.prefix \in Stages
    /\ (benefitsResp.state = "none" =>
           /\ fb.err.prefix = "signin failed"
           /\ (signInResp.state = "response" /\ signInResp.status # StatusOK =>
                  /\ fb.err.msg = "unexpected status %d: %s"
                  /\ fb.err.status = signInResp.status
                  /\ fb.err.excerpt = readRespBody(signInResp)))
    /\ (benefitsResp.state # "none" /\ fb.err.prefix # "parse %s balance" =>
           /\ fb.err.prefix = "fetching balances failed"
           /\ \/ benefitsResp.state = "error"
              \/ benefitsResp.status # StatusOK
              \/ ~decodeBenefits(benefitsResp).ok)
    /\ (fb.err.prefix = "parse %s balance" =>
           /\ decodeBenefits(benefitsResp).ok
           /\ FirstUnparseable(benefitsResp.body.benefits) # ""
           /\ fb.err.wallet = FirstUnparseable(benefitsResp.body.benefits))

HasType(ws, t) == \E i \in 1..Len(ws) : ws[i].walletType = t

Normalized(w) ==
    balanceFloat64([WalletType |-> w.walletType,
                    Balance |-> IF w.balance.kind = "number" THEN w.balance.num
                                ELSE EmptyNumber]).val

FieldOf(ws, t, v) ==
    IF HasType(ws, t)
    THEN \E i \in 1..Len(ws) : ws[i].walletType = t /\ v = Normalized(ws[i])
    ELSE v = Zero

\* C10: in a successful result, Lunch (Virike) is 0 when the response holds no
\* "main" ("wellness") wallet, and otherwise the normalized balance of a
\* wallet of that type in the response.
C10_Defaults ==
    fb.state = "ok" =>
        /\ FieldOf(benefitsResp.body.benefits, "main", fb.balances[1].Lunch)
        /\ FieldOf(benefitsResp.body.benefits, "wellness", fb.balances[1].Virike)

\* C10 witness: a response with a "main" wallet of 12.34 and no "wellness" wallet
C10_Witness ==
    /\ fb.state = "ok"
    /\ HasType(benefitsResp.body.benefits, "main")
    /\ ~HasType(benefitsResp.body.benefits, "wellness")
    /\ fb.balances[1].Lunch = [neg |-> FALSE, digits |-> <<1,2,3,4>>, exp |-> -2]
    /\ fb.balances[1].Virike = Zero

====
